---------------------------- MODULE Spec2Model ----------------------------
(***************************************************************************)
(* Real-time scoreboard: the session-scoped, one-time-use action-token     *)
(* chain that gates every score mutation, the score ledger and the rank    *)
(* index, as designed in src/Architecture/README.md.                       *)
(*                                                                         *)
(* The repository holds the design of this module, not an implementation.  *)
(* Where the README fixes a behaviour, the definition below is mapped to   *)
(* its lines; where it is silent (the order of the checks, the commit      *)
(* boundary, lazy expiry, the tie-break of the ranking) the definition     *)
(* follows spec.md and is recorded as modelled from the specification.     *)
(*                                                                         *)
(* Time is counted in ticks; SessionDuration stands for the 1800 s of a    *)
(* game session.  A request passes the gate (the rate limit), waits in     *)
(* req, and then runs its database transaction in one step; requests of    *)
(* several callers are in flight at once and their transactions are        *)
(* serialized in any order.  The rate limiter reads nothing but its own    *)
(* log of calls, so its verdict is an input of the gate in Spec; GateSpec  *)
(* computes the verdict from the log.  RankSpec drives the rank index and  *)
(* its queries, PointsSpec clients that assert any points, HubSpec the     *)
(* connection hub and its pending events, LiveSpec the hub under fair      *)
(* scheduling of the transactions, CrashSpec the service with crashes of   *)
(* its process.                                                            *)
(*                                                                         *)
(* Two more programs of the repository are modelled from their code: the   *)
(* three sum_to_n functions of src/unnamed/part_000 (SumSpec), and the     *)
(* items service of src/crud-server with its SQLite table (ItemSpec, all   *)
(* five routes; ListSpec, lists with every combination of filters while    *)
(* items are created and deleted).  listItems runs two queries, and other  *)
(* requests are served between them.                                       *)
(***************************************************************************)
EXTENDS Integers, Sequences, FiniteSets, Bags, TLC

\* ------------------------------------------------------------------ bounds
MaxTokens == 3
SessionDuration == 1
MaxScore == 20
TopSize == 2

Users == {1, 2}
Slots == {1, 2}
RankUsers == {1, 2, 3}
MaxTime == SessionDuration + 1
MaxSessions == Cardinality(Users)
NoToken == 0
NotEnded == -1
Nobody == 0
ConnIds == {1, 2}

\* --------------------------------------------------------- fixed point table
PointsTable ==
  [watch_ad |-> 10, solve_puzzle |-> 15, complete_level |-> 20, daily_bonus |-> 5]

ActionInputs == {"watch_ad", "fly_to_moon"}

IsValidAction(a) == a \in DOMAIN PointsTable

pointsFor(a) == PointsTable[a]

Errors ==
  {"TokenNotFound", "InvalidToken", "TokenAlreadyUsed", "SessionExpired",
   "InvalidActionType", "InvalidPoints", "RateLimitExceeded",
   "SessionAlreadyActive", "SessionNotFound"}

VARIABLES now, sessions, tokens, score, history, rankIndex, req, resp,
          top, rate, conns, outbox,
          arg, sum, done,
          items, lastID, clock, listing, reply

vars == <<now, sessions, tokens, score, history, rankIndex, req, resp,
          top, rate, conns, outbox,
          arg, sum, done,
          items, lastID, clock, listing, reply>>

\* The answer of the latest getTopN, the call logs of the rate limiter, the
\* connection registry of the broadcast hub and the pending messages of each
\* registered connection.
queryVars == <<top>>

gateVars == <<rate>>

\* The argument and the results of the three sum_to_n functions, and the
\* state of the items service: the table, the AUTOINCREMENT counter, the
\* database clock, the listItems call between its two queries and the
\* latest response.
sumVars == <<arg, sum, done>>

storeVars == <<items, lastID, clock, listing, reply>>

appVars == <<sumVars, storeVars>>

hubVars == <<conns, outbox>>

\* --------------------------------------------------------------- rank index
RanksBeforeTieDesc(u, v, sc) == sc[u] > sc[v] \/ (sc[u] = sc[v] /\ u > v)

\* u is placed before v: higher score first, equal scores by ascending userId.
RanksBefore(u, v, sc) == sc[u] > sc[v] \/ (sc[u] = sc[v] /\ u < v)

RECURSIVE InsertRanked(_, _, _)
InsertRanked(u, seq, sc) ==
  IF seq = <<>> THEN <<u>>
  ELSE IF RanksBefore(u, Head(seq), sc) THEN <<u>> \o seq
  ELSE <<Head(seq)>> \o InsertRanked(u, Tail(seq), sc)

\* User ids are 1..n.
RECURSIVE SortUsers(_, _)
SortUsers(n, sc) ==
  IF n = 0 THEN <<>> ELSE InsertRanked(n, SortUsers(n - 1, sc), sc)

RefreshRank(sc) == SortUsers(Cardinality(DOMAIN sc), sc)

rankOf(u) == CHOOSE i \in 1..Len(rankIndex) : rankIndex[i] = u

RankIn(rk, u) == CHOOSE i \in 1..Len(rk) : rk[i] = u

Min(a, b) == IF a <= b THEN a ELSE b

Max(a, b) == IF a >= b THEN a ELSE b

TopNSharedRank(n, rk, sc) ==
  [i \in 1..Min(n, Len(rk)) |->
     [rank |-> 1 + Cardinality({v \in DOMAIN sc : sc[v] > sc[rk[i]]}),
      userId |-> rk[i], score |-> sc[rk[i]]]]

\* getTopN: the first n entries of the index, each with its position as rank.
TopN(n, rk, sc) ==
  [i \in 1..Min(n, Len(rk)) |-> [rank |-> i, userId |-> rk[i], score |-> sc[rk[i]]]]

\* ------------------------------------------------------ session store, tokens
NewSession(u, t) ==
  [userId |-> u, createdAt |-> t, expiresAt |-> t + SessionDuration,
   active |-> TRUE, actionsCompleted |-> 0, endedAt |-> NotEnded]

IssueTokenFreshTtl(sid, ss) ==
  [sessionId |-> sid, userId |-> ss[sid].userId,
   expiresAt |-> now + SessionDuration, active |-> TRUE]

\* A token copies the expiry of its session; it is never computed anew.
IssueToken(sid, ss) ==
  [sessionId |-> sid, userId |-> ss[sid].userId,
   expiresAt |-> ss[sid].expiresAt, active |-> TRUE]

RetireTokenKeepActive(tk, tid) == tk

RetireToken(tk, tid) == [tk EXCEPT ![tid].active = FALSE]

SessionLiveStrict(s, t) == s.active /\ t < s.expiresAt

\* The boundary instant t = expiresAt still counts as live.
SessionLive(s, t) == s.active /\ t <= s.expiresAt

LiveSessionsUnflagged(u, ss, t) ==
  {sid \in DOMAIN ss : ss[sid].userId = u /\ t <= ss[sid].expiresAt}

LiveSessions(u, ss, t) ==
  {sid \in DOMAIN ss : ss[sid].userId = u /\ SessionLive(ss[sid], t)}

HasActiveSessionNever(u, ss, t) == FALSE

HasActiveSessionStored(u, ss, t) ==
  \E sid \in DOMAIN ss : ss[sid].userId = u /\ ss[sid].active

HasActiveSession(u, ss, t) == LiveSessions(u, ss, t) # {}

\* Lazy expiry: sessions found past their expiry are marked inactive.
ExpireSessions(ss, sids) ==
  [sid \in DOMAIN ss |->
     IF sid \in sids THEN [ss[sid] EXCEPT !.active = FALSE] ELSE ss[sid]]

Overdue(u, ss, t) ==
  {sid \in DOMAIN ss : ss[sid].userId = u /\ ss[sid].active /\ t > ss[sid].expiresAt}

ActiveTokensOfNone(sid, tk) == {}

ActiveTokensOf(sid, tk) ==
  {tid \in DOMAIN tk : tk[tid].sessionId = sid /\ tk[tid].active}

\* ------------------------------------------------------- validation rules
TokenExists(tk, tid) == tid \in DOMAIN tk

OwnedBy(tk, tid, u) == tk[tid].userId = u

TokenUnusedAlways(tk, tid) == TRUE

TokenUnused(tk, tid) == tk[tid].active

ValidateExpiryFirst(u, tid, tk, ss, t) ==
  IF ~TokenExists(tk, tid) THEN "TokenNotFound"
  ELSE IF ~SessionLive(ss[tk[tid].sessionId], t) THEN "SessionExpired"
  ELSE IF ~TokenUnused(tk, tid) THEN "TokenAlreadyUsed"
  ELSE IF ~OwnedBy(tk, tid, u) THEN "InvalidToken"
  ELSE "ok"

\* The four checks of validateAndRotate; the first violated one is reported.
Validate(u, tid, tk, ss, t) ==
  IF ~TokenExists(tk, tid) THEN "TokenNotFound"
  ELSE IF ~OwnedBy(tk, tid, u) THEN "InvalidToken"
  ELSE IF ~TokenUnused(tk, tid) THEN "TokenAlreadyUsed"
  ELSE IF ~SessionLive(ss[tk[tid].sessionId], t) THEN "SessionExpired"
  ELSE "ok"

PointsMatchAlways(a, p) == TRUE

PointsMatch(a, p) == p = pointsFor(a)

\* applyAction: the action type is looked up, and the points the caller
\* asserts are compared with the table, before the token is touched.
Outcome(u, tid, a, p, tk, ss, t) ==
  IF ~IsValidAction(a) THEN "InvalidActionType"
  ELSE IF ~PointsMatch(a, p) THEN "InvalidPoints"
  ELSE Validate(u, tid, tk, ss, t)

\* ------------------------------------------------------------- score ledger
Credit(sc, u, a) == [sc EXCEPT ![u] = @ + pointsFor(a)]

ScoreEvent(u, a, tid, sc) ==
  [userId |-> u, actionType |-> a, pointsEarned |-> pointsFor(a), tokenId |-> tid,
   scoreBefore |-> sc[u], scoreAfter |-> sc[u] + pointsFor(a)]

\* What one submitAction transaction leaves in each table, by its outcome.
ScoreAfterEager(sc, u, a, res) ==
  IF res \in {"ok", "TokenAlreadyUsed"} THEN Credit(sc, u, a) ELSE sc

ScoreAfterOnExpired(sc, u, a, res) ==
  IF res \in {"ok", "SessionExpired"} THEN Credit(sc, u, a) ELSE sc

ScoreAfter(sc, u, a, res) == IF res = "ok" THEN Credit(sc, u, a) ELSE sc

HistoryAfterLatest(h, u, a, tid, sc, res) ==
  IF res = "ok" THEN <<ScoreEvent(u, a, tid, sc)>> ELSE h

HistoryAfterDropped(h, u, a, tid, sc, res) == h

HistoryAfter(h, u, a, tid, sc, res) ==
  IF res = "ok" THEN Append(h, ScoreEvent(u, a, tid, sc)) ELSE h

TokensAfterRevive(tk, ss, tid, res) ==
  IF res = "ok" THEN Append(RetireToken(tk, tid), IssueToken(tk[tid].sessionId, ss))
  ELSE IF res = "TokenAlreadyUsed" THEN [tk EXCEPT ![tid].active = TRUE]
  ELSE tk

TokensAfterBurn(tk, ss, tid, res) ==
  IF res = "ok" THEN Append(RetireToken(tk, tid), IssueToken(tk[tid].sessionId, ss))
  ELSE IF res = "InvalidToken" THEN RetireToken(tk, tid)
  ELSE tk

TokensAfter(tk, ss, tid, res) ==
  IF res = "ok" THEN Append(RetireToken(tk, tid), IssueToken(tk[tid].sessionId, ss))
  ELSE tk

SessionsAfter(ss, tk, tid, res) ==
  CASE res = "ok" -> [ss EXCEPT ![tk[tid].sessionId].actionsCompleted = @ + 1]
    [] res = "SessionExpired" -> ExpireSessions(ss, {tk[tid].sessionId})
    [] OTHER -> ss

\* ------------------------------------------------------------------ requests
\* req is the bag of requests that passed the gate and wait for their
\* transaction; resp is the response on its way back to the caller.
Request(op, u, tid, a, p) ==
  [op |-> op, userId |-> u, tokenId |-> tid, actionType |-> a, points |-> p]

\* newScore and rank are filled in by a successful submitAction only.
Response(q, res, newTid, newScore, rank) ==
  [op |-> q.op, userId |-> q.userId, tokenId |-> q.tokenId,
   actionType |-> q.actionType, points |-> q.points, res |-> res,
   newTokenId |-> newTid, newScore |-> newScore, rank |-> rank]

NoResponse ==
  Response(Request("none", Nobody, NoToken, "none", 0), "none", NoToken, 0, 0)

\* The points a well-behaved client sends along with action type a.
TablePoints(a) == IF IsValidAction(a) THEN pointsFor(a) ELSE 0

InFlight == BagToSet(req)

NoTop == [n |-> 0, items |-> <<>>, readFrom |-> <<>>]

\* --------------------------------------------------------------- rate limit
\* Ticks stand for the unit of each window; the limits are scaled with them.
SubmitLimit == 2
SubmitWindow == 2
StartLimit == 1
StartWindow == 3

LimitOf(op) == IF op = "startSession" THEN StartLimit ELSE SubmitLimit

WindowOf(op) == IF op = "startSession" THEN StartWindow ELSE SubmitWindow

NoCalls == [op \in {"startSession", "submitAction"} |-> [u \in Users |-> <<>>]]

RECURSIVE RecentFixed(_, _, _)
RecentFixed(log, t, w) ==
  IF log = <<>> THEN <<>>
  ELSE IF (t \div w) = (Head(log) \div w)
       THEN <<Head(log)>> \o RecentFixed(Tail(log), t, w)
       ELSE RecentFixed(Tail(log), t, w)

\* The admitted calls of the rolling window (t - w, t].
RECURSIVE Recent(_, _, _)
Recent(log, t, w) ==
  IF log = <<>> THEN <<>>
  ELSE IF t - Head(log) < w THEN <<Head(log)>> \o Recent(Tail(log), t, w)
       ELSE Recent(Tail(log), t, w)

RateLimited(rt, op, u, t) == Len(Recent(rt[op][u], t, WindowOf(op))) >= LimitOf(op)

\* The limiter logs the calls it lets through.
RecordCall(rt, op, u, t) ==
  IF RateLimited(rt, op, u, t) THEN rt ELSE [rt EXCEPT ![op][u] = Append(@, t)]

\* ------------------------------------------------------------ broadcast hub
GlobalEventStale(sc, rk, t) ==
  [kind |-> "scoreboard:update", top10 |-> TopN(TopSize, rankIndex, score),
   timestamp |-> t]

GlobalEvent(sc, rk, t) ==
  [kind |-> "scoreboard:update", top10 |-> TopN(TopSize, rk, sc), timestamp |-> t]

PersonalEvent(u, a, rkBefore, sc, rk) ==
  [kind |-> "score:personal", userId |-> u, score |-> sc[u], rank |-> RankIn(rk, u),
   pointsEarned |-> pointsFor(a), previousRank |-> RankIn(rkBefore, u)]

EventsForAll(v, u, a, rkBefore, sc, rk, t) ==
  <<GlobalEvent(sc, rk, t), PersonalEvent(u, a, rkBefore, sc, rk)>>

EventsFor(v, u, a, rkBefore, sc, rk, t) ==
  <<GlobalEvent(sc, rk, t)>>
    \o (IF v = u THEN <<PersonalEvent(u, a, rkBefore, sc, rk)>> ELSE <<>>)

PublishAlways(ob, cn, u, a, rkBefore, sc, rk, t, res) ==
  [c \in DOMAIN ob |->
     IF cn[c] = Nobody \/ ~IsValidAction(a) THEN ob[c]
     ELSE ob[c] \o EventsFor(cn[c], u, a, rkBefore, sc, rk, t)]

\* publishGlobalUpdate and publishPersonal: the events of a committed action
\* are queued for the connections registered now; a failure publishes nothing.
Publish(ob, cn, u, a, rkBefore, sc, rk, t, res) ==
  IF res = "ok"
  THEN [c \in DOMAIN ob |->
          IF cn[c] = Nobody THEN ob[c]
          ELSE ob[c] \o EventsFor(cn[c], u, a, rkBefore, sc, rk, t)]
  ELSE ob

HubAcceptsWhenDrained(ob) == \A c \in DOMAIN ob : ob[c] = <<>>

\* Publishing is fire-and-forget: the hub takes the events of a commit
\* whatever the connections still hold, the request never waits for them.
HubAccepts(ob) == TRUE

\* The pending messages of a pruned connection are thrown away.
DropPending(ob, c) == [ob EXCEPT ![c] = <<>>]

\* ------------------------------------------------------ the three sum_to_n
\* Numbers are IEEE doubles in the source; within the bound every value is an
\* integer far below 2^53, and n * (n + 1) is even, so that the division by
\* two is exact.
MaxN == 12

sum_to_n_a(k) == (k * (k + 1)) \div 2

\* Array.from takes the length through ToLength: a negative length is 0.
ToLength(len) == IF len <= 0 THEN 0 ELSE len

ArrayFrom(len) == [index \in 1..ToLength(len) |-> (index - 1) + 1]

RECURSIVE Reduce(_, _)
Reduce(arr, acc) ==
  IF arr = <<>> THEN acc ELSE Reduce(Tail(arr), acc + Head(arr))

sum_to_n_b(k) == Reduce(ArrayFrom(k), 0)

RECURSIVE sum_to_n_c(_)
sum_to_n_c(k) == IF k <= 0 THEN 0 ELSE k + sum_to_n_c(k - 1)

NoSum == [a |-> 0, b |-> 0, c |-> 0]

\* --------------------------------------------------------- the items service
NoListing == [kind |-> "none"]

NoReply == [kind |-> "none"]

\* Nothing has been computed and the items table is empty.
AppsIdle ==
  /\ arg = 0 /\ sum = NoSum /\ done = {}
  /\ items = <<>> /\ lastID = 0 /\ clock = 0
  /\ listing = NoListing /\ reply = NoReply

Init ==
  /\ now = 0
  /\ sessions = <<>>
  /\ tokens = <<>>
  /\ score = [u \in Users |-> 0]
  /\ history = <<>>
  /\ rankIndex = RefreshRank([u \in Users |-> 0])
  /\ req = EmptyBag
  /\ resp = NoResponse
  /\ top = NoTop
  /\ rate = NoCalls
  /\ conns = [c \in ConnIds |-> Nobody]
  /\ outbox = [c \in ConnIds |-> <<>>]
  /\ AppsIdle

\* The request gate: the rate limit is checked ahead of all other logic.
Call(op, u, tid, a, p, limited) ==
  /\ resp = NoResponse
  /\ BagCardinality(req) < Cardinality(Slots)
  /\ IF limited
     THEN /\ resp' = Response(Request(op, u, tid, a, p), "RateLimitExceeded",
                              NoToken, 0, 0)
          /\ UNCHANGED req
     ELSE /\ req' = req (+) SetToBag({Request(op, u, tid, a, p)})
          /\ UNCHANGED resp
  /\ UNCHANGED <<now, sessions, tokens, score, history, rankIndex>>
  /\ UNCHANGED <<queryVars, hubVars, appVars>>

\* Calls whose rate-limit verdict is an input.
StartSessionCall(u, limited) ==
  Call("startSession", u, NoToken, "none", 0, limited) /\ UNCHANGED gateVars

SubmitActionCall(u, tid, a, p, limited) ==
  Call("submitAction", u, tid, a, p, limited) /\ UNCHANGED gateVars

EndSessionCall(u) ==
  Call("endSession", u, NoToken, "none", 0, FALSE) /\ UNCHANGED gateVars

Reply(q, res, newTid) ==
  /\ resp' = Response(q, res, newTid, 0, 0)
  /\ req' = req (-) SetToBag({q})

ReplyAction(q, res, newTid, sc, rk) ==
  /\ resp' = IF res = "ok"
             THEN Response(q, res, newTid, sc[q.userId], RankIn(rk, q.userId))
             ELSE Response(q, res, NoToken, 0, 0)
  /\ req' = req (-) SetToBag({q})

StartSession(q) ==
  /\ resp = NoResponse
  /\ q \in InFlight /\ q.op = "startSession"
  /\ LET u == q.userId
         sid == Len(sessions) + 1
         ss == Append(ExpireSessions(sessions, Overdue(u, sessions, now)),
                      NewSession(u, now))
     IN IF HasActiveSession(u, sessions, now)
        THEN /\ Reply(q, "SessionAlreadyActive", NoToken)
             /\ UNCHANGED <<sessions, tokens>>
        ELSE /\ Len(sessions) < MaxSessions /\ Len(tokens) < MaxTokens
             /\ sessions' = ss
             /\ tokens' = Append(tokens, IssueToken(sid, ss))
             /\ Reply(q, "ok", Len(tokens) + 1)
  /\ UNCHANGED <<now, score, history, rankIndex>>
  /\ UNCHANGED <<queryVars, gateVars, hubVars, appVars>>

SubmitAction(q) ==
  /\ resp = NoResponse
  /\ q \in InFlight /\ q.op = "submitAction"
  /\ LET u == q.userId
         tid == q.tokenId
         a == q.actionType
         res == Outcome(u, tid, a, q.points, tokens, sessions, now)
     IN /\ res = "ok" => Len(tokens) < MaxTokens
        /\ HubAccepts(outbox)
        /\ tokens' = TokensAfter(tokens, sessions, tid, res)
        /\ sessions' = SessionsAfter(sessions, tokens, tid, res)
        /\ score' = ScoreAfter(score, u, a, res)
        /\ history' = HistoryAfter(history, u, a, tid, score, res)
        /\ rankIndex' = RefreshRank(score')
        /\ outbox' = Publish(outbox, conns, u, a, rankIndex, score', rankIndex', now, res)
        /\ ReplyAction(q, res, Len(tokens) + 1, score', rankIndex')
  /\ UNCHANGED <<now, conns>>
  /\ UNCHANGED <<queryVars, gateVars, appVars>>

EndSession(q) ==
  /\ resp = NoResponse
  /\ q \in InFlight /\ q.op = "endSession"
  /\ LET live == LiveSessions(q.userId, sessions, now)
     IN IF live = {}
        THEN /\ Reply(q, "SessionNotFound", NoToken)
             /\ UNCHANGED <<sessions, tokens>>
        ELSE LET sid == CHOOSE s \in live : TRUE
             IN /\ sessions' = [sessions EXCEPT ![sid].active = FALSE,
                                              ![sid].endedAt = now]
                /\ tokens' = [tid \in DOMAIN tokens |->
                                IF tid \in ActiveTokensOf(sid, tokens)
                                THEN RetireToken(tokens, tid)[tid]
                                ELSE tokens[tid]]
                /\ Reply(q, "ok", NoToken)
  /\ UNCHANGED <<now, score, history, rankIndex>>
  /\ UNCHANGED <<queryVars, gateVars, hubVars, appVars>>

\* The response reaches its caller.
Return ==
  /\ resp # NoResponse
  /\ resp' = NoResponse
  /\ UNCHANGED <<now, sessions, tokens, score, history, rankIndex, req>>
  /\ UNCHANGED <<queryVars, gateVars, hubVars, appVars>>

Tick ==
  /\ resp = NoResponse
  /\ now < MaxTime
  /\ now' = now + 1
  /\ UNCHANGED <<sessions, tokens, score, history, rankIndex, req, resp>>
  /\ UNCHANGED <<queryVars, gateVars, hubVars, appVars>>

Next ==
  \/ \E u \in Users, limited \in BOOLEAN : StartSessionCall(u, limited)
  \/ \E u \in Users, tid \in 0..Len(tokens), a \in ActionInputs, limited \in BOOLEAN :
       SubmitActionCall(u, tid, a, TablePoints(a), limited)
  \/ \E u \in Users : EndSessionCall(u)
  \/ \E q \in InFlight : StartSession(q)
  \/ \E q \in InFlight : SubmitAction(q)
  \/ \E q \in InFlight : EndSession(q)
  \/ Return
  \/ Tick

Spec == Init /\ [][Next]_vars

\* ---------------------------------------------------- rank index on its own
\* The ledger commits of valid actions of three users, as the rank index
\* sees them: a score is credited and the index refreshed in the same step.
RankInit ==
  /\ now = 0
  /\ sessions = <<>>
  /\ tokens = <<>>
  /\ score = [u \in RankUsers |-> 0]
  /\ history = <<>>
  /\ rankIndex = RefreshRank([u \in RankUsers |-> 0])
  /\ req = EmptyBag
  /\ resp = NoResponse
  /\ top = NoTop
  /\ rate = NoCalls
  /\ conns = [c \in ConnIds |-> Nobody]
  /\ outbox = [c \in ConnIds |-> <<>>]
  /\ AppsIdle

RankCommit(u, a) ==
  /\ score[u] + pointsFor(a) <= MaxScore
  /\ score' = ScoreAfter(score, u, a, "ok")
  /\ rankIndex' = RefreshRank(score')
  /\ UNCHANGED <<now, sessions, tokens, history, req, resp>>
  /\ UNCHANGED <<queryVars, gateVars, hubVars, appVars>>

\* getTopN(n) answers from the index; top keeps the answer and the scores
\* it was read from.
GetTopN(n) ==
  /\ top' = [n |-> n, items |-> TopN(n, rankIndex, score), readFrom |-> score]
  /\ UNCHANGED <<now, sessions, tokens, score, history, rankIndex, req, resp>>
  /\ UNCHANGED <<gateVars, hubVars, appVars>>

RankNext ==
  \/ \E u \in RankUsers, a \in DOMAIN PointsTable : RankCommit(u, a)
  \/ \E n \in 0..(Cardinality(RankUsers) + 1) : GetTopN(n)

RankSpec == RankInit /\ [][RankNext]_vars

\* ------------------------------------------------ the gate with its limiter
\* The verdict of the gate is computed from the call logs, and the clock
\* runs past the longer window.
GateMaxTime == StartWindow

GateUsers == {1}

GateCall(op, u, tid, a, p) ==
  /\ Call(op, u, tid, a, p, RateLimited(rate, op, u, now))
  /\ rate' = RecordCall(rate, op, u, now)

GateTick ==
  /\ resp = NoResponse
  /\ now < GateMaxTime
  /\ now' = now + 1
  /\ UNCHANGED <<sessions, tokens, score, history, rankIndex, req, resp>>
  /\ UNCHANGED <<queryVars, gateVars, hubVars, appVars>>

GateNext ==
  \/ \E u \in GateUsers : GateCall("startSession", u, NoToken, "none", 0)
  \/ \E u \in GateUsers, tid \in 0..Len(tokens), a \in ActionInputs :
       GateCall("submitAction", u, tid, a, TablePoints(a))
  \/ \E q \in InFlight : StartSession(q)
  \/ \E q \in InFlight : SubmitAction(q)
  \/ Return
  \/ GateTick

GateSpec == Init /\ [][GateNext]_vars

\* ------------------------------------------- one session that is under way
\* The state after user 2 has started a session at time 0 and got the
\* response: the starting point of the specifications below.
StartedInit ==
  /\ now = 0
  /\ sessions = <<NewSession(2, 0)>>
  /\ tokens = <<IssueToken(1, <<NewSession(2, 0)>>)>>
  /\ score = [u \in Users |-> 0]
  /\ history = <<>>
  /\ rankIndex = RefreshRank([u \in Users |-> 0])
  /\ req = EmptyBag
  /\ resp = NoResponse
  /\ top = NoTop
  /\ rate = NoCalls
  /\ conns = [c \in ConnIds |-> Nobody]
  /\ outbox = [c \in ConnIds |-> <<>>]
  /\ AppsIdle

\* --------------------------------------------- the hub with its connections
\* A client registers a connection as user u.
Connect(c, u) ==
  /\ conns[c] = Nobody
  /\ conns' = [conns EXCEPT ![c] = u]
  /\ UNCHANGED <<now, sessions, tokens, score, history, rankIndex, req, resp>>
  /\ UNCHANGED <<queryVars, gateVars, outbox, appVars>>

\* The connection is closed and pruned from the registry.
Disconnect(c) ==
  /\ conns[c] # Nobody
  /\ conns' = [conns EXCEPT ![c] = Nobody]
  /\ outbox' = DropPending(outbox, c)
  /\ UNCHANGED <<now, sessions, tokens, score, history, rankIndex, req, resp>>
  /\ UNCHANGED <<queryVars, gateVars, appVars>>

\* The client of connection c takes its next pending message.
Deliver(c) ==
  /\ conns[c] # Nobody
  /\ outbox[c] # <<>>
  /\ outbox' = [outbox EXCEPT ![c] = Tail(@)]
  /\ UNCHANGED <<now, sessions, tokens, score, history, rankIndex, req, resp>>
  /\ UNCHANGED <<queryVars, gateVars, conns, appVars>>

\* Calls are offered only while the token table has room for their successors.
HubSubmitCall(u, tid, a, limited) ==
  /\ Len(tokens) + BagCardinality(req) < MaxTokens
  /\ SubmitActionCall(u, tid, a, TablePoints(a), limited)

HubNext ==
  \/ \E u \in Users, tid \in DOMAIN tokens, a \in ActionInputs, limited \in BOOLEAN :
       HubSubmitCall(u, tid, a, limited)
  \/ \E q \in InFlight : SubmitAction(q)
  \/ Return
  \/ \E c \in ConnIds, u \in Users : Connect(c, u)
  \/ \E c \in ConnIds : Disconnect(c)
  \/ \E c \in ConnIds : Deliver(c)

HubSpec == StartedInit /\ [][HubNext]_vars

\* The hub under fair scheduling: every admitted request gets its transaction
\* and every response is returned; nothing obliges a client to take its
\* messages.  Calls pass the gate and carry one action type.
LiveActions == {"watch_ad"}

LiveRequests ==
  {Request("submitAction", u, tid, a, TablePoints(a)) :
     u \in Users, tid \in 1..MaxTokens, a \in LiveActions}

LiveNext ==
  \/ \E u \in Users, tid \in DOMAIN tokens, a \in LiveActions :
       HubSubmitCall(u, tid, a, FALSE)
  \/ \E q \in InFlight : SubmitAction(q)
  \/ Return
  \/ \E c \in ConnIds, u \in Users : Connect(c, u)
  \/ \E c \in ConnIds : Disconnect(c)
  \/ \E c \in ConnIds : Deliver(c)

LiveFairness ==
  /\ WF_vars(Return)
  /\ \A q \in LiveRequests : SF_vars(SubmitAction(q))

LiveSpec == StartedInit /\ [][LiveNext]_vars /\ LiveFairness

\* ------------------------------------------- clients that assert any points
PointsActions == {"watch_ad", "solve_puzzle"}

PointInputs == {10, 15}

PointsNext ==
  \/ \E u \in Users, tid \in DOMAIN tokens, a \in PointsActions, p \in PointInputs,
        limited \in BOOLEAN : SubmitActionCall(u, tid, a, p, limited)
  \/ \E q \in InFlight : SubmitAction(q)
  \/ Return

PointsSpec == StartedInit /\ [][PointsNext]_vars

\* ------------------------------------------------------------ shared notions
\* ------------------------------------------------ the server process crashes
\* The process dies and restarts: the requests it had admitted, the response
\* it was about to send and its connections are lost; what the database
\* holds is what the transactions committed before.
Crash ==
  /\ req # EmptyBag \/ resp # NoResponse
  /\ req' = EmptyBag
  /\ resp' = NoResponse
  /\ conns' = [c \in ConnIds |-> Nobody]
  /\ outbox' = [c \in ConnIds |-> <<>>]
  /\ UNCHANGED <<now, sessions, tokens, score, history, rankIndex>>
  /\ UNCHANGED <<queryVars, gateVars, appVars>>

\* Calls that pass the gate, with a token that was issued and an action type
\* of the table; ownership, replay and expiry are what they can fail on.
CrashNext ==
  \/ \E u \in Users : StartSessionCall(u, FALSE)
  \/ \E u \in Users, tid \in DOMAIN tokens,
        a \in {b \in ActionInputs : IsValidAction(b)} :
       SubmitActionCall(u, tid, a, TablePoints(a), FALSE)
  \/ \E u \in Users : EndSessionCall(u)
  \/ \E q \in InFlight : StartSession(q)
  \/ \E q \in InFlight : SubmitAction(q)
  \/ \E q \in InFlight : EndSession(q)
  \/ Return
  \/ Tick
  \/ Crash

CrashSpec == Init /\ [][CrashNext]_vars

\* -------------------------------------------------- sum_to_n on its own
boardVars == <<now, sessions, tokens, score, history, rankIndex, req, resp,
               queryVars, gateVars, hubVars>>

SumInit ==
  /\ now = 0
  /\ sessions = <<>>
  /\ tokens = <<>>
  /\ score = [u \in Users |-> 0]
  /\ history = <<>>
  /\ rankIndex = RefreshRank([u \in Users |-> 0])
  /\ req = EmptyBag
  /\ resp = NoResponse
  /\ top = NoTop
  /\ rate = NoCalls
  /\ conns = [c \in ConnIds |-> Nobody]
  /\ outbox = [c \in ConnIds |-> <<>>]
  /\ arg \in -MaxN..MaxN
  /\ sum = NoSum /\ done = {}
  /\ items = <<>> /\ lastID = 0 /\ clock = 0
  /\ listing = NoListing /\ reply = NoReply

CallSumA ==
  /\ "a" \notin done
  /\ sum' = [sum EXCEPT !.a = sum_to_n_a(arg)]
  /\ done' = done \cup {"a"}
  /\ UNCHANGED <<boardVars, arg, storeVars>>

CallSumB ==
  /\ "b" \notin done
  /\ sum' = [sum EXCEPT !.b = sum_to_n_b(arg)]
  /\ done' = done \cup {"b"}
  /\ UNCHANGED <<boardVars, arg, storeVars>>

CallSumC ==
  /\ "c" \notin done
  /\ sum' = [sum EXCEPT !.c = sum_to_n_c(arg)]
  /\ done' = done \cup {"c"}
  /\ UNCHANGED <<boardVars, arg, storeVars>>

SumNext == CallSumA \/ CallSumB \/ CallSumC

SumSpec == SumInit /\ [][SumNext]_vars

\* ------------------------------------------------------ the items service
\* A JavaScript value of a request body or an SQL value of a column: absent,
\* null, a text (its characters in order) or a number.
Undefined == [t |-> "undefined", s |-> <<>>, k |-> 0]

Null == [t |-> "null", s |-> <<>>, k |-> 0]

Text(s) == [t |-> "text", s |-> s, k |-> 0]

Num(k) == [t |-> "num", s |-> <<>>, k |-> k]

\* What `!v` and `v || w` go by: undefined, null, "" and 0 are falsy.
Truthy(v) ==
  CASE v.t = "text" -> v.s # <<>>
    [] v.t = "num" -> v.k # 0
    [] OTHER -> FALSE

OrElse(v, w) == IF Truthy(v) THEN v ELSE w

MaxItems == 2
MaxClock == 1
DefaultLimit == 10

ItemIds == 1..MaxItems

\* The rows of the table in rowid order.
Ids(tbl) == {tbl[i].id : i \in DOMAIN tbl}

RowOf(tbl, id) == tbl[CHOOSE i \in DOMAIN tbl : tbl[i].id = id]

NextIdMaxRowid(tbl, last) == IF tbl = <<>> THEN 1 ELSE tbl[Len(tbl)].id + 1

\* AUTOINCREMENT: the rowid is one past the largest ever given.
NextId(tbl, last) == last + 1

\* INSERT INTO items (name, description, category, price, quantity):
\* created_at is the clock; updated_at, which no query reads, is left out.
InsertedRow(id, itemData, t) ==
  [id |-> id,
   name |-> itemData.name,
   description |-> OrElse(itemData.description, Null),
   category |-> OrElse(itemData.category, Null),
   price |-> OrElse(itemData.price, Null),
   quantity |-> OrElse(itemData.quantity, Num(0)),
   created_at |-> t]

\* UPDATE items SET <the fields that are not undefined> WHERE id = ?
Patched(old, new) == IF new # Undefined THEN new ELSE old

UpdatedRow(row, itemData) ==
  [id |-> row.id,
   name |-> Patched(row.name, itemData.name),
   description |-> Patched(row.description, itemData.description),
   category |-> Patched(row.category, itemData.category),
   price |-> Patched(row.price, itemData.price),
   quantity |-> Patched(row.quantity, itemData.quantity),
   created_at |-> row.created_at]

NoFields(itemData) ==
  /\ itemData.name = Undefined /\ itemData.description = Undefined
  /\ itemData.category = Undefined /\ itemData.price = Undefined
  /\ itemData.quantity = Undefined

\* SQLite's LIKE: % stands for any run of characters, _ for any one
\* character, and letters match without regard to case.
Lower(c) == CASE c = "A" -> "a" [] c = "B" -> "b" [] OTHER -> c

RECURSIVE Like(_, _)
Like(pat, str) ==
  IF pat = <<>> THEN str = <<>>
  ELSE IF Head(pat) = "%"
       THEN Like(Tail(pat), str) \/ (str # <<>> /\ Like(pat, Tail(str)))
       ELSE /\ str # <<>>
            /\ Head(pat) = "_" \/ Lower(Head(pat)) = Lower(Head(str))
            /\ Like(Tail(pat), Tail(str))

\* column LIKE '%search%'; a NULL column matches nothing.
LikeSearch(col, search) ==
  col.t = "text" /\ Like(<<"%">> \o search.s \o <<"%">>, col.s)

\* The WHERE clause that listItems builds: a filter takes part when its
\* condition in the source holds; a comparison with NULL is not true.
Matches(row, f) ==
  /\ Truthy(f.category) => row.category = f.category
  /\ f.minPrice # Undefined => (row.price.t = "num" /\ row.price.k >= f.minPrice.k)
  /\ f.maxPrice # Undefined => (row.price.t = "num" /\ row.price.k <= f.maxPrice.k)
  /\ Truthy(f.search) =>
       (LikeSearch(row.name, f.search) \/ LikeSearch(row.description, f.search))

Matching(tbl, f) == SelectSeq(tbl, LAMBDA row : Matches(row, f))

\* ORDER BY created_at DESC: every order of the rows in which created_at
\* never rises; rows of one instant come in an order SQL does not fix.
Orders(rows) ==
  {p \in [1..Len(rows) -> 1..Len(rows)] :
     /\ \A i, j \in 1..Len(rows) : i # j => p[i] # p[j]
     /\ \A i, j \in 1..Len(rows) :
          i < j => rows[p[i]].created_at >= rows[p[j]].created_at}

\* LIMIT ? OFFSET ?
Page(rows, p, limit, offset) ==
  [i \in 1..(IF Len(rows) - offset < 0 THEN 0
             ELSE IF Len(rows) - offset < limit THEN Len(rows) - offset
             ELSE limit) |-> rows[p[offset + i]]]

\* Math.floor(offset / limit) + 1
currentPage(limit, offset) == (offset \div limit) + 1

\* ItemController: the status an error of the service is answered with.
StatusOf(op, message) ==
  CASE message = "ok" -> (IF op = "createItem" THEN 201 ELSE 200)
    [] message = "Name is required" /\ op = "createItem" -> 400
    [] message = "Item not found" /\ op \in {"getItem", "updateItem", "deleteItem"} -> 404
    [] message = "No fields to update" /\ op = "updateItem" -> 400
    [] OTHER -> 500

\* ResponseHandler: rows is the data of a getItem or listItems, id the id a
\* createItem returns or the id the request named.
Answer(op, id, message, rows, total, page, limit) ==
  [kind |-> "reply", op |-> op, id |-> id, message |-> message,
   statusCode |-> StatusOf(op, message), rows |-> rows,
   total |-> total, page |-> page, limit |-> limit]

Plain(op, id, message) == Answer(op, id, message, <<>>, 0, 0, 0)

ItemData(name, description, category, price, quantity) ==
  [name |-> name, description |-> description, category |-> category,
   price |-> price, quantity |-> quantity]

\* Request bodies of POST /api/items: complete ones, also with price 0 and
\* an empty description, and ones whose name is missing, empty or null.
Bodies ==
  {ItemData(Text(<<"a", "b">>), Undefined, Text(<<"x">>), Num(1), Undefined),
   ItemData(Text(<<"A">>), Text(<<"b">>), Undefined, Num(2), Num(1)),
   ItemData(Text(<<"b">>), Text(<<>>), Text(<<"x">>), Num(0), Undefined),
   ItemData(Undefined, Undefined, Text(<<"x">>), Num(1), Undefined),
   ItemData(Text(<<>>), Undefined, Undefined, Undefined, Undefined),
   ItemData(Null, Undefined, Undefined, Num(1), Undefined)}

\* Request bodies of PUT /api/items/:id: no field, a name that is a text,
\* empty or null, and a field other than the name.
Patches ==
  {ItemData(Undefined, Undefined, Undefined, Undefined, Undefined),
   ItemData(Text(<<"B">>), Undefined, Undefined, Undefined, Undefined),
   ItemData(Text(<<>>), Undefined, Undefined, Undefined, Undefined),
   ItemData(Null, Undefined, Undefined, Undefined, Undefined),
   ItemData(Undefined, Undefined, Null, Undefined, Undefined)}

Filters(category, minPrice, maxPrice, search, limit, offset) ==
  [category |-> category, minPrice |-> minPrice, maxPrice |-> maxPrice,
   search |-> search, limit |-> limit, offset |-> offset]

\* limit = 10 and offset = 0 when the filters leave them undefined.
LimitOfFilters(f) == IF f.limit = Undefined THEN DefaultLimit ELSE f.limit.k

OffsetOfFilters(f) == IF f.offset = Undefined THEN 0 ELSE f.offset.k

ItemServiceIdle == reply = NoReply

createItem(itemData) ==
  /\ ItemServiceIdle
  /\ IF ~Truthy(itemData.name)
     THEN /\ reply' = Plain("createItem", 0, "Name is required")
          /\ UNCHANGED <<items, lastID>>
     ELSE /\ lastID < MaxItems
          /\ items' = Append(items, InsertedRow(NextId(items, lastID), itemData, clock))
          /\ lastID' = Max(lastID, NextId(items, lastID))
          /\ reply' = Plain("createItem", NextId(items, lastID), "ok")
  /\ UNCHANGED <<boardVars, sumVars, clock, listing>>

getItemById(id) ==
  /\ ItemServiceIdle
  /\ reply' = IF id \in Ids(items)
              THEN Answer("getItem", id, "ok", <<RowOf(items, id)>>, 0, 0, 0)
              ELSE Plain("getItem", id, "Item not found")
  /\ UNCHANGED <<boardVars, sumVars, items, lastID, clock, listing>>

\* The UPDATE fails on the NOT NULL constraint of name when it would set the
\* name of a row to NULL; with no row of that id it changes nothing.
updateItem(id, itemData) ==
  /\ ItemServiceIdle
  /\ IF NoFields(itemData)
     THEN /\ reply' = Plain("updateItem", id, "No fields to update")
          /\ UNCHANGED items
     ELSE IF id \notin Ids(items)
     THEN /\ reply' = Plain("updateItem", id, "Item not found")
          /\ UNCHANGED items
     ELSE IF itemData.name = Null
     THEN /\ reply' = Plain("updateItem", id, "SQLITE_CONSTRAINT")
          /\ UNCHANGED items
     ELSE /\ items' = [i \in DOMAIN items |->
                         IF items[i].id = id THEN UpdatedRow(items[i], itemData)
                         ELSE items[i]]
          /\ reply' = Plain("updateItem", id, "ok")
  /\ UNCHANGED <<boardVars, sumVars, lastID, clock, listing>>

deleteItem(id) ==
  /\ ItemServiceIdle
  /\ IF id \in Ids(items)
     THEN /\ items' = SelectSeq(items, LAMBDA row : row.id # id)
          /\ reply' = Plain("deleteItem", id, "ok")
     ELSE /\ reply' = Plain("deleteItem", id, "Item not found")
          /\ UNCHANGED items
  /\ UNCHANGED <<boardVars, sumVars, lastID, clock, listing>>

\* listItems, first query: SELECT COUNT(*) with the filters.
listItemsCount(f) ==
  /\ ItemServiceIdle
  /\ listing = NoListing
  /\ listing' = [kind |-> "counted", filters |-> f,
                 total |-> Len(Matching(items, f))]
  /\ UNCHANGED <<boardVars, sumVars, items, lastID, clock, reply>>

\* listItems, second query, issued from the callback of the first: SELECT *
\* with the same filters, ordered and cut to the page, and the response.
listItemsRows ==
  /\ ItemServiceIdle
  /\ listing # NoListing
  /\ LET f == listing.filters
         rows == Matching(items, f)
     IN \E p \in Orders(rows) :
          reply' = Answer("listItems", 0, "ok",
                          Page(rows, p, LimitOfFilters(f), OffsetOfFilters(f)),
                          listing.total,
                          currentPage(LimitOfFilters(f), OffsetOfFilters(f)),
                          LimitOfFilters(f))
  /\ listing' = NoListing
  /\ UNCHANGED <<boardVars, sumVars, items, lastID, clock>>

\* The response is sent.
Respond ==
  /\ reply # NoReply
  /\ reply' = NoReply
  /\ UNCHANGED <<boardVars, sumVars, items, lastID, clock, listing>>

\* CURRENT_TIMESTAMP moves on.
ClockTick ==
  /\ ItemServiceIdle
  /\ clock < MaxClock
  /\ clock' = clock + 1
  /\ UNCHANGED <<boardVars, sumVars, items, lastID, listing, reply>>

\* The table as initializeDatabase leaves it, and nothing else going on.
ItemInit ==
  /\ now = 0
  /\ sessions = <<>>
  /\ tokens = <<>>
  /\ score = [u \in Users |-> 0]
  /\ history = <<>>
  /\ rankIndex = RefreshRank([u \in Users |-> 0])
  /\ req = EmptyBag
  /\ resp = NoResponse
  /\ top = NoTop
  /\ rate = NoCalls
  /\ conns = [c \in ConnIds |-> Nobody]
  /\ outbox = [c \in ConnIds |-> <<>>]
  /\ AppsIdle

\* The five routes, with a few lists among them, within one instant of the
\* database clock.
ItemQueries ==
  {Filters(Undefined, Undefined, Undefined, Undefined, Undefined, Undefined),
   Filters(Text(<<>>), Undefined, Undefined, Text(<<>>), Num(1), Undefined),
   Filters(Text(<<"x">>), Undefined, Undefined, Text(<<"b">>), Num(1), Num(1))}

ItemNext ==
  \/ \E itemData \in Bodies : createItem(itemData)
  \/ \E id \in ItemIds : getItemById(id)
  \/ \E id \in ItemIds, itemData \in Patches : updateItem(id, itemData)
  \/ \E id \in ItemIds : deleteItem(id)
  \/ \E f \in ItemQueries : listItemsCount(f)
  \/ listItemsRows
  \/ Respond

ItemSpec == ItemInit /\ [][ItemNext]_vars

\* Lists with every combination of filters, while items come and go.
ListQueries ==
  {Filters(category, price[1], price[2], search, limit, offset) :
     category \in {Undefined, Text(<<"x">>)},
     price \in {<<Undefined, Undefined>>, <<Num(1), Undefined>>,
                <<Undefined, Num(1)>>, <<Num(1), Num(2)>>},
     search \in {Undefined, Text(<<"B">>), Text(<<"_">>)},
     limit \in {Undefined, Num(1), Num(2)},
     offset \in {Undefined, Num(1)}}

ListNext ==
  \/ \E itemData \in Bodies : createItem(itemData)
  \/ \E id \in ItemIds : deleteItem(id)
  \/ \E f \in ListQueries : listItemsCount(f)
  \/ listItemsRows
  \/ Respond
  \/ ClockTick

ListSpec == ItemInit /\ [][ListNext]_vars

TypeOK ==
  /\ now \in 0..MaxTime
  /\ Len(sessions) <= MaxSessions
  /\ Len(tokens) <= MaxTokens
  /\ resp.res \in Errors \cup {"none", "ok"}

\* This step returns the response resp' of a request of kind op.
Completes(op) == resp = NoResponse /\ resp' # NoResponse /\ resp'.op = op

\* This step is the transaction of an admitted request of kind op.
Transacts(op) == Completes(op) /\ req' # req


\* Request r names a known action type with the points of the table, so that
\* its transaction goes on to the token checks.
WellFormed(r) ==
  r.actionType \in DOMAIN PointsTable /\ r.points = PointsTable[r.actionType]

TokensOfSession(sid) == {tid \in DOMAIN tokens : tokens[tid].sessionId = sid}

EventsOfToken(tid) == {i \in DOMAIN history : history[i].tokenId = tid}

\* --------------------------------------------------------------------- C1
\* C1: every session has at most one token with active = TRUE, and exactly
\* one while the session itself is active; in the state a successful
\* submitAction leaves behind the submitted token is retired and its one
\* successor, the newest token, is the active token of the same session;
\* every token is the first of a session or the successor of one action.
SingleActiveToken ==
  /\ \A sid \in DOMAIN sessions :
       /\ Cardinality({tid \in TokensOfSession(sid) : tokens[tid].active}) <= 1
       /\ sessions[sid].active =>
            Cardinality({tid \in TokensOfSession(sid) : tokens[tid].active}) = 1
  /\ Len(tokens) = Len(sessions) + Len(history)
  /\ (resp.op = "submitAction" /\ resp.res = "ok") =>
       /\ ~tokens[resp.tokenId].active
       /\ resp.newTokenId = Len(tokens)
       /\ tokens[resp.newTokenId].active
       /\ tokens[resp.newTokenId].sessionId = tokens[resp.tokenId].sessionId

\* A rotation has just committed in a session that is still active.
RotatedInActiveSession ==
  /\ resp.op = "submitAction" /\ resp.res = "ok"
  /\ sessions[tokens[resp.tokenId].sessionId].active
  /\ Cardinality(TokensOfSession(tokens[resp.tokenId].sessionId)) >= 2

\* --------------------------------------------------------------------- C2
\* C2: no tokenId is named by two score events, and once a token has been
\* consumed by an action every later submitAction that presents it fails;
\* when the caller is its owner and the request reaches the token checks
\* (it passed the gate with a known action type) it fails with
\* TokenAlreadyUsed.
NoReplay ==
  /\ [](\A tid \in DOMAIN tokens : Cardinality(EventsOfToken(tid)) <= 1)
  /\ [][(Transacts("submitAction") /\ EventsOfToken(resp'.tokenId) # {}) =>
          /\ resp'.res # "ok"
          /\ (/\ resp'.userId = tokens[resp'.tokenId].userId
              /\ WellFormed(resp')) => resp'.res = "TokenAlreadyUsed"]_vars

\* The owner replayed a token that an earlier action consumed.
ReplayRejected ==
  /\ resp.op = "submitAction" /\ resp.res = "TokenAlreadyUsed"
  /\ EventsOfToken(resp.tokenId) # {}
  /\ resp.userId = tokens[resp.tokenId].userId

FailureLeavesLedger ==
  [][(Completes("submitAction") /\ resp'.res # "ok") =>
       (score' = score /\ history' = history)]_vars

\* A user who has scored gets a failure.
FailedAfterScoring ==
  /\ resp.op = "submitAction" /\ resp.res \in Errors
  /\ score[resp.userId] > 0 /\ history # <<>>

\* --------------------------------------------------------------------- C5
\* C5 as stated: a failed submitAction changes no token, session or rank
\* state.
FailureChangesNoState ==
  [][(Completes("submitAction") /\ resp'.res # "ok") =>
       (tokens' = tokens /\ sessions' = sessions /\ rankIndex' = rankIndex)]_vars

\* C5 as amended: a failed submitAction changes no token and no rank state,
\* and no session state either, except that SessionExpired marks the
\* expired session of the token inactive; so a token presented by another
\* user, with an unknown action type or in a rate-limited call stays active,
\* gets no successor and leaves actionsCompleted as it was.
FailureFrame ==
  [][(Completes("submitAction") /\ resp'.res # "ok") =>
       /\ tokens' = tokens
       /\ rankIndex' = rankIndex
       /\ IF resp'.res = "SessionExpired"
          THEN sessions' = [sessions EXCEPT
                              ![tokens[resp'.tokenId].sessionId].active = FALSE]
          ELSE sessions' = sessions]_vars

\* Another user presented a token that is still active in a live session.
ForeignAttemptOnLiveToken ==
  /\ resp.op = "submitAction" /\ resp.res = "InvalidToken"
  /\ tokens[resp.tokenId].active
  /\ sessions[tokens[resp.tokenId].sessionId].active
  /\ now <= sessions[tokens[resp.tokenId].sessionId].expiresAt

\* --------------------------------------------------------------------- C6
\* C6: every token carries the expiresAt of its session, which is the
\* session's createdAt + SessionDuration, and no step changes the expiresAt
\* of an existing session or token.
SharedExpiry ==
  /\ [](/\ \A tid \in DOMAIN tokens :
             tokens[tid].expiresAt = sessions[tokens[tid].sessionId].expiresAt
        /\ \A sid \in DOMAIN sessions :
             sessions[sid].expiresAt = sessions[sid].createdAt + SessionDuration)
  /\ [][/\ \A sid \in DOMAIN sessions :
             /\ sessions'[sid].expiresAt = sessions[sid].expiresAt
             /\ sessions'[sid].createdAt = sessions[sid].createdAt
        /\ \A tid \in DOMAIN tokens :
             tokens'[tid].expiresAt = tokens[tid].expiresAt]_vars

\* A successor token was issued later than its session was created.
SuccessorIssuedLater ==
  /\ resp.op = "submitAction" /\ resp.res = "ok"
  /\ now > sessions[tokens[resp.newTokenId].sessionId].createdAt

\* --------------------------------------------------------------------- C7
\* C7: a request of the owner that reaches the token checks with the
\* current active token and a known action type succeeds when
\* now <= createdAt + SessionDuration of the session, the boundary instant
\* included and whatever the number of earlier actions, and fails with
\* SessionExpired after it; no score changes after the expiry of the session
\* the action belongs to.
ExpiryBoundary ==
  /\ [][(/\ Transacts("submitAction")
         /\ resp'.tokenId \in DOMAIN tokens
         /\ resp'.userId = tokens[resp'.tokenId].userId
         /\ tokens[resp'.tokenId].active
         /\ WellFormed(resp')) =>
          IF now <= sessions[tokens[resp'.tokenId].sessionId].createdAt + SessionDuration
          THEN resp'.res = "ok"
          ELSE resp'.res = "SessionExpired" /\ score' = score]_vars
  /\ [][score' # score =>
          /\ Transacts("submitAction")
          /\ now <= sessions[tokens[resp'.tokenId].sessionId].createdAt
                      + SessionDuration]_vars

\* The second action of a session succeeds at the very instant of expiry.
AcceptedAtBoundary ==
  /\ resp.op = "submitAction" /\ resp.res = "ok"
  /\ now = sessions[tokens[resp.tokenId].sessionId].createdAt + SessionDuration
  /\ sessions[tokens[resp.tokenId].sessionId].actionsCompleted >= 2

\* --------------------------------------------------------------------- C8
\* C8: no user has two sessions with active = TRUE; every session has a
\* token and every token a session; a startSession transaction of a user
\* with a live session answers SessionAlreadyActive and creates nothing, any
\* other creates exactly one session of that user and its first token.
OneActiveSession ==
  /\ [](/\ \A u \in Users :
             Cardinality({sid \in DOMAIN sessions :
                            sessions[sid].userId = u /\ sessions[sid].active}) <= 1
        /\ \A sid \in DOMAIN sessions : TokensOfSession(sid) # {}
        /\ \A tid \in DOMAIN tokens : tokens[tid].sessionId \in DOMAIN sessions)
  /\ [][Transacts("startSession") =>
          IF \E sid \in DOMAIN sessions :
               /\ sessions[sid].userId = resp'.userId
               /\ sessions[sid].active /\ now <= sessions[sid].expiresAt
          THEN /\ resp'.res = "SessionAlreadyActive"
               /\ sessions' = sessions /\ tokens' = tokens
          ELSE /\ resp'.res = "ok"
               /\ Len(sessions') = Len(sessions) + 1
               /\ Len(tokens') = Len(tokens) + 1
               /\ sessions'[Len(sessions')].userId = resp'.userId
               /\ sessions'[Len(sessions')].active
               /\ tokens'[Len(tokens')].sessionId = Len(sessions')
               /\ tokens'[Len(tokens')].active
               /\ resp'.newTokenId = Len(tokens')]_vars

\* One of two startSession requests of a user has created the session while
\* the other, admitted before, still waits for its transaction.
StartRaceWon ==
  /\ resp.op = "startSession" /\ resp.res = "ok"
  /\ \E q \in InFlight : q.op = "startSession" /\ q.userId = resp.userId

RankCorrect ==
  /\ Len(rankIndex) = Cardinality(DOMAIN score)
  /\ {rankIndex[i] : i \in 1..Len(rankIndex)} = DOMAIN score
  /\ \A u \in DOMAIN score :
       rankOf(u) = 1 + Cardinality({v \in DOMAIN score : score[v] > score[u]})
                     + Cardinality({v \in DOMAIN score :
                                      score[v] = score[u] /\ v < u})

\* After commits two users are tied on a positive score below a third.
TiedAfterCommits ==
  \E u, v, w \in DOMAIN score :
    u < v /\ score[u] = score[v] /\ score[u] > 0 /\ score[w] > score[u]

\* -------------------------------------------------------------------- C11
\* C11: for every n, getTopN(n) has min(n, number of users) entries, entry i
\* carries rank i, the user whose rankOf is i and that user's score; entries
\* are in descending score with equal scores in ascending userId, and no
\* user left out ranks before one that is in; an answer read from the
\* scores as they are now is what a call now returns.
TopNCorrect ==
  /\ \A n \in 0..(Cardinality(DOMAIN score) + 1) :
       LET r == TopN(n, rankIndex, score)
           inTop == {r[i].userId : i \in 1..Len(r)}
       IN /\ Len(r) = (IF n <= Cardinality(DOMAIN score)
                       THEN n ELSE Cardinality(DOMAIN score))
          /\ \A i \in 1..Len(r) :
               /\ r[i].rank = i
               /\ r[i].userId \in DOMAIN score
               /\ rankOf(r[i].userId) = i
               /\ r[i].score = score[r[i].userId]
          /\ \A i, j \in 1..Len(r) :
               i < j => \/ r[i].score > r[j].score
                        \/ (r[i].score = r[j].score /\ r[i].userId < r[j].userId)
          /\ \A v \in DOMAIN score \ inTop : \A w \in inTop :
               score[w] > score[v] \/ (score[w] = score[v] /\ w < v)
  /\ (top # NoTop /\ top.readFrom = score) =>
       top.items = TopN(top.n, rankIndex, score)

\* getTopN answered, from the current scores, with two users tied on a
\* positive score next to each other while a user was left out.
TopAnsweredWithTie ==
  /\ top # NoTop /\ top.readFrom = score
  /\ Len(top.items) = 2 /\ top.n = 2
  /\ top.items[1].score = top.items[2].score /\ top.items[1].score > 0
  /\ top.items[1].userId < top.items[2].userId

\* -------------------------------------------------------------------- C12
\* C12: a submitAction with a known action type whose asserted points differ
\* from the table value of that type is rejected with InvalidPoints and
\* changes neither scores, tokens nor history; every event of the history
\* carries the table value of its action type, which is what the score
\* grew by.
PointsMismatchRejected ==
  /\ [](\A i \in DOMAIN history :
          /\ history[i].pointsEarned = PointsTable[history[i].actionType]
          /\ history[i].scoreAfter = history[i].scoreBefore + history[i].pointsEarned)
  /\ [][(/\ Transacts("submitAction")
         /\ IsValidAction(resp'.actionType)
         /\ resp'.points # PointsTable[resp'.actionType]) =>
          /\ resp'.res = "InvalidPoints"
          /\ score' = score /\ tokens' = tokens /\ history' = history]_vars

\* The owner presented the active token with watch_ad and asserted 15 points.
MismatchOnLiveToken ==
  /\ resp.op = "submitAction" /\ resp.res = "InvalidPoints"
  /\ resp.actionType = "watch_ad" /\ resp.points = 15
  /\ resp.userId = tokens[resp.tokenId].userId
  /\ tokens[resp.tokenId].active

\* -------------------------------------------------------------------- C13
\* C13: of each user's calls of an operation, no rolling window holds more
\* admitted ones than the limit of the operation; a call is admitted, and
\* logged, exactly when fewer than the limit were admitted in the window
\* ending now, and is otherwise answered RateLimitExceeded, whatever its
\* token and action type, without any change of scores, history, tokens,
\* sessions, rank index or waiting requests.
LimitedOps == {"startSession", "submitAction"}

AdmittedIn(op, u, from, to) ==
  {i \in DOMAIN rate[op][u] : from < rate[op][u][i] /\ rate[op][u][i] <= to}

RateLimitFirst ==
  /\ [](\A op \in LimitedOps, u \in Users, t \in 0..GateMaxTime :
          Cardinality(AdmittedIn(op, u, t - WindowOf(op), t)) <= LimitOf(op))
  /\ [][\A op \in LimitedOps :
          /\ (Completes(op) /\ resp'.res = "RateLimitExceeded") =>
               /\ Cardinality(AdmittedIn(op, resp'.userId, now - WindowOf(op), now))
                    >= LimitOf(op)
               /\ UNCHANGED <<score, history, tokens, sessions, rankIndex, req, rate>>
          /\ \A q \in BagToSet(req') :
               (q.op = op /\ CopiesIn(q, req') > CopiesIn(q, req)) =>
                 /\ Cardinality(AdmittedIn(op, q.userId, now - WindowOf(op), now))
                      < LimitOf(op)
                 /\ rate' = [rate EXCEPT ![op][q.userId] = Append(@, now)]]_vars
  /\ [][rate' # rate => BagCardinality(req') = BagCardinality(req) + 1]_vars

\* A submitAction of the owner with the active token and a known action type
\* is turned away by the gate, and so is a startSession in another state.
LimitedWithLiveToken ==
  /\ resp.op = "submitAction" /\ resp.res = "RateLimitExceeded"
  /\ resp.tokenId \in DOMAIN tokens
  /\ tokens[resp.tokenId].active /\ tokens[resp.tokenId].userId = resp.userId
  /\ sessions[tokens[resp.tokenId].sessionId].active
  /\ now <= sessions[tokens[resp.tokenId].sessionId].expiresAt
  /\ WellFormed(resp)
  /\ Len(rate["submitAction"][resp.userId]) > LimitOf("submitAction")

\* -------------------------------------------------------------------- C14
\* C14: a successful endSession marks the live session of the user inactive
\* and ended now, retires its active token without a successor and leaves
\* scores and history alone; an ended session has no active token, and
\* every later submitAction with a token of an ended session fails without
\* a change of score.
LiveSessionOf(u) ==
  {sid \in DOMAIN sessions :
     /\ sessions[sid].userId = u /\ sessions[sid].active
     /\ now <= sessions[sid].expiresAt}

EndSessionRetires ==
  /\ [](\A sid \in DOMAIN sessions :
          sessions[sid].endedAt # NotEnded =>
            /\ ~sessions[sid].active
            /\ \A tid \in TokensOfSession(sid) : ~tokens[tid].active)
  /\ [][(Transacts("endSession") /\ resp'.res = "ok") =>
          /\ LiveSessionOf(resp'.userId) # {}
          /\ \A sid \in LiveSessionOf(resp'.userId) :
               /\ ~sessions'[sid].active
               /\ sessions'[sid].endedAt = now
               /\ \A tid \in TokensOfSession(sid) : ~tokens'[tid].active
          /\ Len(tokens') = Len(tokens)
          /\ score' = score /\ history' = history /\ rankIndex' = rankIndex]_vars
  /\ [][(/\ Transacts("submitAction")
         /\ resp'.tokenId \in DOMAIN tokens
         /\ sessions[tokens[resp'.tokenId].sessionId].endedAt # NotEnded) =>
          (resp'.res # "ok" /\ score' = score)]_vars

\* After endSession the owner presents the token the session ended with: it
\* was never used by an action, and is refused.
EndedTokenRefused ==
  /\ resp.op = "submitAction" /\ resp.res = "TokenAlreadyUsed"
  /\ resp.userId = tokens[resp.tokenId].userId
  /\ EventsOfToken(resp.tokenId) = {}
  /\ sessions[tokens[resp.tokenId].sessionId].endedAt # NotEnded
  /\ score[resp.userId] > 0

\* -------------------------------------------------------------------- C15
\* C15: an endSession transaction of a user without a live session answers
\* SessionNotFound and leaves sessions, tokens, scores, history and rank
\* index as they are, and with a live session it succeeds; no step changes
\* a session that has been ended.
EndSessionIdempotent ==
  /\ [][Transacts("endSession") =>
          IF LiveSessionOf(resp'.userId) = {}
          THEN /\ resp'.res = "SessionNotFound"
               /\ UNCHANGED <<sessions, tokens, score, history, rankIndex>>
          ELSE resp'.res = "ok"]_vars
  /\ [][\A sid \in DOMAIN sessions :
          sessions[sid].endedAt # NotEnded => sessions'[sid] = sessions[sid]]_vars

\* The second endSession, in the tick in which the first one succeeded.
EndedTwice ==
  /\ resp.op = "endSession" /\ resp.res = "SessionNotFound"
  /\ \E sid \in DOMAIN sessions :
       sessions[sid].userId = resp.userId /\ sessions[sid].endedAt = now

\* -------------------------------------------------------------------- C16
\* C16: a startSession transaction of a user all of whose sessions are
\* inactive or past their expiry succeeds with a new active session and its
\* first token, and leaves no older session of the user flagged active, so
\* that no user ever has two sessions flagged active.
ExpiryNeverLocksOut ==
  /\ [](\A u \in Users :
          Cardinality({sid \in DOMAIN sessions :
                         sessions[sid].userId = u /\ sessions[sid].active}) <= 1)
  /\ [][(/\ Transacts("startSession")
         /\ \A sid \in DOMAIN sessions :
              sessions[sid].userId = resp'.userId =>
                (~sessions[sid].active \/ now > sessions[sid].expiresAt)) =>
          /\ resp'.res = "ok"
          /\ Len(sessions') = Len(sessions) + 1
          /\ sessions'[Len(sessions')].active
          /\ sessions'[Len(sessions')].userId = resp'.userId
          /\ sessions'[Len(sessions')].expiresAt = now + SessionDuration
          /\ tokens'[resp'.newTokenId].sessionId = Len(sessions')
          /\ tokens'[resp'.newTokenId].active
          /\ \A sid \in DOMAIN sessions :
               sessions[sid].userId = resp'.userId => ~sessions'[sid].active]_vars

\* A user starts anew after a session that ran out: it was never ended and
\* no action was refused for its expiry, its last token is still unused.
RestartedAfterExpiry ==
  /\ resp.op = "startSession" /\ resp.res = "ok"
  /\ \E sid \in DOMAIN sessions :
       /\ sid # tokens[resp.newTokenId].sessionId
       /\ sessions[sid].userId = resp.userId
       /\ now > sessions[sid].expiresAt
       /\ sessions[sid].endedAt = NotEnded
       /\ \E tid \in TokensOfSession(sid) : tokens[tid].active

\* -------------------------------------------------------------------- C17
\* C17: the response of a successful submitAction carries the score that
\* contains the points of the action and the rank that score has among the
\* scores after the commit; the global event queued with the commit carries
\* the top of those same scores and the personal event that score and rank;
\* in every connection the pending global events are in the order of their
\* commits.
RankAmong(sc, u) ==
  1 + Cardinality({v \in DOMAIN sc : sc[v] > sc[u]})
    + Cardinality({v \in DOMAIN sc : sc[v] = sc[u] /\ v < u})

IsTopOf(top10, sc) ==
  /\ Len(top10) = (IF TopSize <= Cardinality(DOMAIN sc)
                   THEN TopSize ELSE Cardinality(DOMAIN sc))
  /\ \A i \in 1..Len(top10) :
       /\ top10[i].rank = i
       /\ top10[i].userId \in DOMAIN sc
       /\ RankAmong(sc, top10[i].userId) = i
       /\ top10[i].score = sc[top10[i].userId]

GlobalsOf(c) == SelectSeq(outbox[c], LAMBDA e : e.kind = "scoreboard:update")

EventPerCommit ==
  /\ [][score' # score =>
          /\ Transacts("submitAction") /\ resp'.res = "ok"
          /\ \A c \in ConnIds :
               IF conns[c] = Nobody THEN outbox'[c] = outbox[c]
               ELSE /\ Len(outbox'[c]) =
                         Len(outbox[c]) + (IF conns[c] = resp'.userId THEN 2 ELSE 1)
                    /\ SubSeq(outbox'[c], 1, Len(outbox[c])) = outbox[c]
                    /\ outbox'[c][Len(outbox[c]) + 1].kind = "scoreboard:update"
                    /\ conns[c] = resp'.userId =>
                         /\ outbox'[c][Len(outbox'[c])].kind = "score:personal"
                         /\ outbox'[c][Len(outbox'[c])].userId = resp'.userId
                         /\ outbox'[c][Len(outbox'[c])].pointsEarned
                              = PointsTable[resp'.actionType]]_vars
  /\ [][(Completes("submitAction") /\ resp'.res # "ok") => outbox' = outbox]_vars
  /\ [][(\E c \in ConnIds : Len(outbox'[c]) > Len(outbox[c])) => score' # score]_vars

\* A replay of the scorer fails while a connection of the scorer and one of
\* another user still hold exactly the events of the one commit.
FailureAfterCommitPending ==
  /\ resp.op = "submitAction" /\ resp.res = "TokenAlreadyUsed"
  /\ Len(history) = 1
  /\ \E c, d \in ConnIds :
       /\ conns[c] = resp.userId /\ Len(outbox[c]) = 2
       /\ conns[d] \notin {Nobody, resp.userId} /\ Len(outbox[d]) = 1

\* -------------------------------------------------------------------- C19
\* C19: a pending personal event of user U sits only in a connection
\* registered for U; a connection that is not registered holds nothing, a
\* newly registered one starts with nothing, however many events were
\* published before, and only a registered connection is ever delivered a
\* message or queued one.
PersonalOnlyToOwner ==
  /\ [](\A c \in ConnIds :
          /\ conns[c] = Nobody => outbox[c] = <<>>
          /\ \A i \in 1..Len(outbox[c]) :
               outbox[c][i].kind = "score:personal" => outbox[c][i].userId = conns[c])
  /\ [][\A c \in ConnIds :
          /\ (conns[c] = Nobody /\ conns'[c] # Nobody) => outbox'[c] = <<>>
          /\ conns'[c] # conns[c] => (conns[c] = Nobody \/ conns'[c] = Nobody)
          /\ outbox'[c] # outbox[c] =>
               (conns[c] # Nobody /\ (conns'[c] = conns[c] \/ outbox'[c] = <<>>))]_vars

\* Of two connections registered during a commit, the scorer's holds the
\* personal event and the other user's the global event alone.
PersonalWithheldFromOther ==
  /\ Len(history) = 1
  /\ \E c, d \in ConnIds :
       /\ conns[c] = history[1].userId
       /\ \E i \in 1..Len(outbox[c]) : outbox[c][i].kind = "score:personal"
       /\ conns[d] \notin {Nobody, history[1].userId}
       /\ Len(outbox[d]) = 1 /\ outbox[d][1].kind = "scoreboard:update"

\* -------------------------------------------------------------------- C20
\* C20: every admitted submitAction is answered with the outcome of its
\* transaction, and an accepted one has by then consumed its token, recorded
\* its event and issued the successor, although no client is obliged ever to
\* take a message from its connection.
AdmittedReturns ==
  \A q \in LiveRequests :
    (q \in InFlight) ~>
      (/\ resp.op = "submitAction" /\ resp.res # "RateLimitExceeded"
       /\ resp.userId = q.userId /\ resp.tokenId = q.tokenId
       /\ resp.actionType = q.actionType
       /\ (resp.res = "ok" =>
             (/\ Len(tokens) > q.tokenId
              /\ ~tokens[q.tokenId].active
              /\ EventsOfToken(q.tokenId) # {})))

\* The second action is answered while a connection still holds every
\* event published since it registered.
AnsweredWhileClientStalls ==
  /\ resp.op = "submitAction" /\ resp.res = "ok"
  /\ Len(history) = 2
  /\ \E c \in ConnIds : conns[c] = resp.userId /\ Len(outbox[c]) = 4

\* -------------------------------------------------------------------- C21
\* C21: in every reachable state, after crashes and lost races too, a token
\* that a submitAction consumed (an inactive token that has a successor in
\* its session) has exactly one ScoreEvent naming it, and every ScoreEvent
\* names such a token; a token retired without a successor has none; each
\* ScoreEvent has scoreAfter = scoreBefore + the table's points of its action
\* type; each user's score is the sum of pointsEarned over the user's
\* events; and actionsCompleted of a session is the number of events of the
\* session's tokens.
RECURSIVE SumEarned(_, _)
SumEarned(h, u) ==
  IF h = <<>> THEN 0
  ELSE (IF Head(h).userId = u THEN Head(h).pointsEarned ELSE 0) + SumEarned(Tail(h), u)

ConsumedByAction(tid) ==
  /\ ~tokens[tid].active
  /\ \E nxt \in DOMAIN tokens :
       nxt > tid /\ tokens[nxt].sessionId = tokens[tid].sessionId

EventsOfSession(sid) ==
  {i \in DOMAIN history :
     history[i].tokenId \in DOMAIN tokens /\ tokens[history[i].tokenId].sessionId = sid}

CommitIsOneUnit ==
  /\ \A tid \in DOMAIN tokens :
       Cardinality(EventsOfToken(tid)) = (IF ConsumedByAction(tid) THEN 1 ELSE 0)
  /\ \A i \in DOMAIN history :
       /\ history[i].tokenId \in DOMAIN tokens
       /\ ConsumedByAction(history[i].tokenId)
       /\ history[i].userId = tokens[history[i].tokenId].userId
       /\ history[i].pointsEarned = PointsTable[history[i].actionType]
       /\ history[i].scoreAfter = history[i].scoreBefore + PointsTable[history[i].actionType]
  /\ \A u \in Users : score[u] = SumEarned(history, u)
  /\ \A sid \in DOMAIN sessions :
       sessions[sid].actionsCompleted = Cardinality(EventsOfSession(sid))

\* Nothing is in flight; one session committed an action and was then
\* ended, which retired its last token without an event, and a session
\* started after that holds the active token.
CommittedThenEnded ==
  /\ req = EmptyBag /\ resp = NoResponse
  /\ Len(history) = 1
  /\ \E sid \in DOMAIN sessions :
       /\ sessions[sid].endedAt # NotEnded
       /\ sessions[sid].actionsCompleted = 1
       /\ \E tid \in TokensOfSession(sid) :
            ~tokens[tid].active /\ ~ConsumedByAction(tid)
  /\ \E tid \in DOMAIN tokens : tokens[tid].active

\* -------------------------------------------------------------------- C22
\* C22: no step of any operation, a crash included, lowers a score; a score
\* changes only in the transaction of a submitAction that answers ok, and
\* then only the caller's; the history only grows at its end: every entry
\* stays where it is, as it is.
LedgerOnlyGrows ==
  [][/\ \A u \in Users : score'[u] >= score[u]
     /\ score' # score =>
          /\ Transacts("submitAction") /\ resp'.res = "ok"
          /\ \A u \in Users : u # resp'.userId => score'[u] = score[u]
     /\ Len(history') >= Len(history)
     /\ SubSeq(history', 1, Len(history)) = history]_vars

\* The second commit of a user is answered: the history holds the event of
\* the first commit in front of the event of the second.
SecondCommitAnswered ==
  /\ resp.op = "submitAction" /\ resp.res = "ok"
  /\ Len(history) = 2
  /\ history[1].scoreAfter = history[2].scoreBefore
  /\ score[resp.userId] = history[2].scoreAfter

\* -------------------------------------------------------------------- C23
\* C23: a token that is inactive stays inactive in every later state; no
\* step removes a token or changes whose it is, of which session, or when it
\* expires; a token is issued only by a startSession or submitAction that
\* answers ok, one at a time, and the identifier it gets, which the response
\* carries, is none of the identifiers issued before.
ConsumptionIsFinal ==
  [][/\ \A tid \in DOMAIN tokens :
          /\ tid \in DOMAIN tokens'
          /\ tokens'[tid].sessionId = tokens[tid].sessionId
          /\ tokens'[tid].userId = tokens[tid].userId
          /\ tokens'[tid].expiresAt = tokens[tid].expiresAt
          /\ ~tokens[tid].active => ~tokens'[tid].active
     /\ DOMAIN tokens' # DOMAIN tokens =>
          /\ Cardinality(DOMAIN tokens' \ DOMAIN tokens) = 1
          /\ resp'.op \in {"startSession", "submitAction"} /\ resp'.res = "ok"
          /\ resp'.newTokenId \in DOMAIN tokens' \ DOMAIN tokens
          /\ tokens'[resp'.newTokenId].active]_vars

\* Every identifier of the table is issued, the first two tokens are
\* consumed, and a replay of one of them has just been refused.
ReplayOfConsumedRefused ==
  /\ Len(tokens) = MaxTokens
  /\ ~tokens[1].active /\ ~tokens[2].active
  /\ resp.op = "submitAction" /\ resp.res = "TokenAlreadyUsed"
  /\ resp.tokenId \in {1, 2}

\* -------------------------------------------------------------------- C24
\* C24: once the three functions have been applied to the argument, which
\* ranges over negative numbers, zero and positive numbers, their results
\* are equal, and for an argument n >= 0 they are 1 + 2 + ... + n, counted
\* here as the number of pairs i <= j drawn from 1..n.
Triangle(k) == Cardinality({p \in (1..k) \X (1..k) : p[1] <= p[2]})

AllSummed == done = {"a", "b", "c"}

SumsAgree ==
  AllSummed =>
    /\ sum.a = sum.b /\ sum.b = sum.c
    /\ arg >= 0 => sum.a = Triangle(arg)

\* What does hold: the three agree exactly from n = -1 upwards and are the
\* triangular number from 0 upwards; below -1 the loop and the recursion
\* return 0 and the closed form returns the positive n * (n + 1) / 2.
SumsAgreeFromMinusOne ==
  AllSummed =>
    /\ sum.b = sum.c
    /\ arg >= -1 => sum.a = sum.b
    /\ arg >= 0 => sum.a = Triangle(arg)
    /\ arg < -1 => (sum.b = 0 /\ sum.a = Triangle(-arg - 1) /\ sum.a > 0)

\* The three have been applied to a number below -1.
SummedBelowMinusOne == AllSummed /\ arg < -1

\* -------------------------------------------------------------------- C25
\* C25: every stored item has a name that is a non-empty text, whatever
\* createItem, updateItem and deleteItem calls came before; a createItem
\* whose name is missing, empty or null is answered 400 "Name is required"
\* and inserts no row.
NameEmpty(row) == row.name.t # "text" \/ row.name.s = <<>>

CreateWithoutName ==
  /\ reply = NoReply /\ reply' # NoReply
  /\ reply'.op = "createItem" /\ reply'.message = "Name is required"

StoredNamesNonEmpty ==
  /\ [](\A i \in DOMAIN items : ~NameEmpty(items[i]))
  /\ [][(reply = NoReply /\ reply' # NoReply /\ reply'.op = "createItem") =>
          IF items' = items
          THEN CreateWithoutName /\ reply'.statusCode = 400
          ELSE /\ reply'.statusCode = 201
               /\ Len(items') = Len(items) + 1
               /\ ~NameEmpty(items'[Len(items')])]_vars

\* What does hold: createItem behaves as stated and no stored name is ever
\* NULL; a row's name is empty only after an updateItem has set it so.
CreateRequiresName ==
  /\ [](\A i \in DOMAIN items : items[i].name.t = "text")
  /\ [][(reply = NoReply /\ reply' # NoReply /\ reply'.op = "createItem") =>
          IF items' = items
          THEN CreateWithoutName /\ reply'.statusCode = 400
          ELSE /\ reply'.statusCode = 201
               /\ Len(items') = Len(items) + 1
               /\ ~NameEmpty(items'[Len(items')])]_vars
  /\ [][(\E i \in DOMAIN items' : NameEmpty(items'[i]))
          /\ ~(\E i \in DOMAIN items : NameEmpty(items[i]))
          => (reply'.op = "updateItem" /\ reply'.statusCode = 200)]_vars

\* An updateItem whose name is the empty text has been answered 200 and the
\* row is stored with that name.
EmptyNameStored ==
  /\ reply # NoReply /\ reply.op = "updateItem" /\ reply.statusCode = 200
  /\ reply.id \in Ids(items)
  /\ RowOf(items, reply.id).name = Text(<<>>)

\* -------------------------------------------------------------------- C26
\* C26: a getItemById, a deleteItem or an updateItem with at least one field
\* that names an id not in the table is answered 404 "Item not found" and
\* leaves the table as it is; an id that was given out and is no longer in
\* the table never comes back, so that this holds for every call after a
\* successful deleteItem; an updateItem with no field is answered 400
\* "No fields to update" and leaves the table as it is, for any id.
Refused(statusCode, message) ==
  /\ reply'.statusCode = statusCode /\ reply'.message = message
  /\ items' = items

NotFoundIsFinal ==
  [][/\ \A id \in ItemIds :
          id \notin Ids(items) =>
            /\ getItemById(id) => Refused(404, "Item not found")
            /\ deleteItem(id) => Refused(404, "Item not found")
            /\ \A itemData \in Patches :
                 (~NoFields(itemData) /\ updateItem(id, itemData))
                   => Refused(404, "Item not found")
     /\ \A id \in ItemIds, itemData \in Patches :
          (NoFields(itemData) /\ updateItem(id, itemData))
            => Refused(400, "No fields to update")
     /\ \A id \in 1..lastID : id \notin Ids(items) => id \notin Ids(items')
     /\ lastID' >= lastID]_vars

\* Item 1 was deleted, item 2 was created after that, and an updateItem of
\* id 1 with a field has just been answered 404.
UpdateAfterDeleteRefused ==
  /\ reply # NoReply /\ reply.op = "updateItem" /\ reply.statusCode = 404
  /\ reply.id = 1 /\ lastID = 2
  /\ Ids(items) = {2}

\* -------------------------------------------------------------------- C27
\* C27: for every combination of filters, limit >= 1 and offset >= 0, the
\* response of listItems holds at most limit items, each of which satisfies
\* every filter that was supplied: its category equals the category asked
\* for, its price lies between minPrice and maxPrice, and the search term is
\* a substring of its name or of its description (letters compared without
\* regard to case); pagination.total is the number of stored items that
\* satisfy the filters when they are counted, whatever limit and offset are;
\* pagination.page is floor(offset / limit) + 1.
Contains(col, term) ==
  /\ col.t = "text"
  /\ \E at \in 0..(Len(col.s) - Len(term.s)) :
       \A j \in 1..Len(term.s) : Lower(col.s[at + j]) = Lower(term.s[j])

\* The same with _ in the term standing for any one character, as LIKE
\* takes it.
ContainsLike(col, term) ==
  /\ col.t = "text"
  /\ \E at \in 0..(Len(col.s) - Len(term.s)) :
       \A j \in 1..Len(term.s) :
         term.s[j] = "_" \/ Lower(col.s[at + j]) = Lower(term.s[j])

InPriceRange(row, f) ==
  /\ f.minPrice # Undefined => (row.price.t = "num" /\ f.minPrice.k <= row.price.k)
  /\ f.maxPrice # Undefined => (row.price.t = "num" /\ row.price.k <= f.maxPrice.k)

Satisfies(row, f) ==
  /\ f.category # Undefined => row.category = f.category
  /\ InPriceRange(row, f)
  /\ f.search # Undefined =>
       (Contains(row.name, f.search) \/ Contains(row.description, f.search))

SatisfiesLike(row, f) ==
  /\ f.category # Undefined => row.category = f.category
  /\ InPriceRange(row, f)
  /\ f.search # Undefined =>
       (ContainsLike(row.name, f.search) \/ ContainsLike(row.description, f.search))

ListCounts ==
  listing = NoListing /\ listing' # NoListing

ListAnswers ==
  reply = NoReply /\ reply' # NoReply /\ reply'.op = "listItems"

ListItemsFilters ==
  [][/\ ListCounts =>
          listing'.total =
            Cardinality({i \in DOMAIN items : Satisfies(items[i], listing'.filters)})
     /\ ListAnswers =>
          /\ reply'.statusCode = 200
          /\ Len(reply'.rows) <= reply'.limit
          /\ \A i \in DOMAIN reply'.rows : Satisfies(reply'.rows[i], listing.filters)
          /\ reply'.total = listing.total
          /\ reply'.limit = LimitOfFilters(listing.filters)
          /\ reply'.page * reply'.limit <= OffsetOfFilters(listing.filters) + reply'.limit
          /\ OffsetOfFilters(listing.filters) < reply'.page * reply'.limit]_vars

\* What does hold: the same with the search matched as LIKE matches it, and
\* the answer is the page of the matching rows: as many as the rows from
\* offset on allow, up to limit, each a stored row, none twice.
ListItemsFiltersLike ==
  [][/\ ListCounts =>
          listing'.total =
            Cardinality({i \in DOMAIN items : SatisfiesLike(items[i], listing'.filters)})
     /\ ListAnswers =>
          /\ reply'.statusCode = 200
          /\ Len(reply'.rows) <= reply'.limit
          /\ \A i \in DOMAIN reply'.rows :
               /\ SatisfiesLike(reply'.rows[i], listing.filters)
               /\ \E k \in DOMAIN items : items[k] = reply'.rows[i]
               /\ \A j \in DOMAIN reply'.rows :
                    i < j => /\ reply'.rows[i].id # reply'.rows[j].id
                             /\ reply'.rows[i].created_at >= reply'.rows[j].created_at
          /\ LET matching == Cardinality({k \in DOMAIN items :
                                            SatisfiesLike(items[k], listing.filters)})
                 rest == Max(0, matching - OffsetOfFilters(listing.filters))
             IN Len(reply'.rows) = Min(rest, reply'.limit)
          /\ reply'.total = listing.total
          /\ reply'.limit = LimitOfFilters(listing.filters)
          /\ reply'.page * reply'.limit <= OffsetOfFilters(listing.filters) + reply'.limit
          /\ OffsetOfFilters(listing.filters) < reply'.page * reply'.limit]_vars

\* A list that searches for "_" is answered with an item that has no "_" in
\* its name or in its description.
WildcardSearchAnswered ==
  /\ reply # NoReply /\ reply.op = "listItems"
  /\ \E i \in DOMAIN reply.rows :
       /\ ~Contains(reply.rows[i].name, Text(<<"_">>))
       /\ ~Contains(reply.rows[i].description, Text(<<"_">>))
       /\ ContainsLike(reply.rows[i].name, Text(<<"_">>))
  /\ reply.total = Len(reply.rows)
  /\ reply.total = 2

\* -------------------------------------------------------------------- C28
\* C28: when a listItems with offset 0 and a limit no smaller than the
\* number of matching items is answered, the number of returned items is
\* pagination.total, also when createItem and deleteItem calls are served
\* between its two queries.
MatchingNow(f) == Cardinality({k \in DOMAIN items : SatisfiesLike(items[k], f)})

ListTotalMatchesRows ==
  [][(/\ ListAnswers
      /\ OffsetOfFilters(listing.filters) = 0
      /\ LimitOfFilters(listing.filters) >= MatchingNow(listing.filters))
       => Len(reply'.rows) = reply'.total]_vars

\* A list without filters, offset 0 and the default limit is answered with
\* two items and total 1: the second item was created after the count.
ListedMoreThanCounted ==
  /\ reply # NoReply /\ reply.op = "listItems"
  /\ reply.limit = DefaultLimit
  /\ reply.total = 1 /\ Len(reply.rows) = 2

=============================================================================
